---- MODULE Spec2Model ----
(***************************************************************************)
(* Playback state machine of the Speakit reader.                           *)
(*                                                                         *)
(*   Index (src/src/pages/Index.tsx)        owns user and content and      *)
(*                                          shows TTSReader iff content    *)
(*                                          is a non-empty string.         *)
(*   TTSReader (src/src/components/TTSReader.tsx)                          *)
(*                                          owns isPlaying and             *)
(*                                          currentWordIndex and hands one *)
(*                                          utterance per word to          *)
(*                                          window.speechSynthesis.        *)
(*   ContentInput (src/src/components/ContentInput.tsx)                    *)
(*                                          issues the extraction requests *)
(*                                          whose answers replace content. *)
(*                                                                         *)
(*   useGuestStorage (second half of src/src/pages/Index.tsx)              *)
(*                                          keeps the guest history and    *)
(*                                          bookmarks in React state and   *)
(*                                          in localStorage.               *)
(*                                                                         *)
(* A text is a sequence of one-character strings.  An utterance carries    *)
(* the values its onend closure captured when speakWord built it: the      *)
(* index, the words of that render and the isPlaying of that render, and   *)
(* the rate and voice it was given.  What a step sends out (an insert into *)
(* reading_history, a toast) is held in inserts and toast for that step    *)
(* only.                                                                   *)
(*                                                                         *)
(* Spec is the reader with its content replaced through PDF extraction;    *)
(* SpecVoice adds the voice and speed controls, SpecInput is the input     *)
(* page with both extraction paths, SpecGuest is the guest storage hook    *)
(* next to the mounting of the reader.                                     *)
(***************************************************************************)
EXTENDS Integers, Sequences, FiniteSets

\* ---------------------------------------------------------------- bounds
MaxTextLen == 3
MaxUnits == 2
MaxQueue == 2
MaxPending == 1
MaxInFlight == 2
MaxSaving == 1

\* ----------------------------------------------------------- input sets
Chars == {"a", "b", " ", "\n"}
Whitespace == {" ", "\n"}
NoUser == "none"
Users == {"u1"}

\* voices of the speech capability, by name; NoVoice is null / undefined
NoVoice == "null"
FemaleNamed == {"Samantha"}
MaleNamed == {"Daniel"}
VoiceLists == {<<>>, <<"Alex", "Samantha">>}

\* speed multipliers in tenths (the slider runs from 0.5 to 2.0)
DefaultSpeed == 10
SliderValues == {10, 20}

RECURSIVE SeqsUpTo(_)
SeqsUpTo(n) ==
    IF n = 0 THEN {<<>>}
    ELSE LET S == SeqsUpTo(n - 1)
         IN S \cup {Append(s, c) : s \in {t \in S : Len(t) = n - 1}, c \in Chars}

Texts == SeqsUpTo(MaxTextLen)

\* ------------------------------------------------------------- tokenizer
\* content.split(/\s+/).filter(word => word.length > 0)
RECURSIVE SplitWs(_, _, _)
SplitWs(text, cur, acc) ==
    IF text = <<>> THEN Append(acc, cur)
    ELSE IF Head(text) \in Whitespace
         THEN IF Tail(text) # <<>> /\ Head(Tail(text)) \in Whitespace
              THEN SplitWs(Tail(text), cur, acc)
              ELSE SplitWs(Tail(text), <<>>, Append(acc, cur))
         ELSE SplitWs(Tail(text), Append(cur, Head(text)), acc)

FilterNonEmpty(ws) == SelectSeq(ws, LAMBDA w : Len(w) > 0)

\* the split without the filter
Tokenize_KeepsEmpty(text) == SplitWs(text, <<>>, <<>>)

Tokenize(text) == FilterNonEmpty(SplitWs(text, <<>>, <<>>))

\* the contents given to the reader: none, one of whitespace only, and one of
\* each number of units up to MaxUnits
RECURSIVE TextOfUnits(_)
TextOfUnits(n) == IF n = 1 THEN <<"a">> ELSE TextOfUnits(n - 1) \o <<" ", "a">>

Contents == {<<>>, <<" ">>} \cup {TextOfUnits(n) : n \in 1..MaxUnits}

VARIABLES
    user,             \* Index: user?.id, NoUser when signed out
    content,          \* Index: content
    signingOut,       \* Index: handleSignOut suspended at its await
    pdfInFlight,      \* ContentInput: extract-pdf-content requests not answered yet
    isPlaying,        \* TTSReader: isPlaying
    currentWordIndex, \* TTSReader: currentWordIndex
    started,          \* history: play() has run in this reader since it was
                      \* mounted or last stopped
    speed,            \* TTSReader: speed[0], in tenths
    voice,            \* TTSReader: voice, by name
    voices,           \* TTSReader: voices
    available,        \* speechSynthesis: what getVoices() returns
    queue,            \* speechSynthesis: utterances handed to speak(), first is spoken
    cancelled,        \* speechSynthesis: utterances removed by cancel() whose
                      \* event has not been dispatched yet
    inserts,          \* supabase: the reading_history inserts issued by the
                      \* step just taken, each with its outcome
    lsHistory,        \* localStorage: the list under speakit_guest_history
    lsBookmarks,      \* localStorage: the list under speakit_guest_bookmarks
    guestHistory,     \* useGuestStorage: guestHistory
    guestBookmarks,   \* useGuestStorage: guestBookmarks
    capHistory,       \* useGuestStorage: the guestHistory seen by the
                      \* addToHistory its caller holds
    capBookmarks,     \* useGuestStorage: the guestBookmarks seen by the
                      \* saveBookmark and getBookmark its caller holds
    nextId,           \* crypto.randomUUID: number of ids drawn
    url,              \* ContentInput: url
    loading,          \* ContentInput: loading
    urlInFlight,      \* ContentInput: extract-web-content requests not answered
                      \* yet, those of unmounted ContentInputs included
    toast,            \* useToast: the toast shown by the step just taken
    saving,           \* supabase: the reading_history inserts not answered yet
    logged            \* console.error: the message logged by the step just taken

voiceVars == <<speed, voice, voices>>

guestVars == <<lsHistory, lsBookmarks, guestHistory, guestBookmarks, capHistory,
               capBookmarks, nextId>>

inputVars == <<url, loading, urlInFlight>>

appVars == <<user, content, signingOut, pdfInFlight, isPlaying, currentWordIndex,
             started, queue, cancelled>>

vars == <<user, content, signingOut, pdfInFlight, isPlaying, currentWordIndex,
          started, queue, cancelled, voiceVars, available, inserts,
          guestVars, inputVars, toast, saving, logged>>

NoLog == "none"

\* the step issues no insert into reading_history and none is answered
NoInsert == inserts' = {} /\ saving' = saving /\ logged' = NoLog

\* toast({title, description})
Toast(title, description) == [title |-> title, description |-> description]

None == [title |-> "none", description |-> "none"]

\* the step shows no toast
NoToast == toast' = None

\* -------------------------------------------------------------- TTSReader
mounted == content # <<>>

words == Tokenize(content)

Range(s) == {s[i] : i \in 1..Len(s)}

\* numbers as JavaScript's / and * give them, kept exact: a fraction in lowest
\* terms num / den, or NaN (0 / 0), or Infinity (k / 0 with k > 0)
NaN == [kind |-> "NaN", num |-> 0, den |-> 0]
Infinity == [kind |-> "Infinity", num |-> 0, den |-> 0]

RECURSIVE GCD(_, _)
GCD(a, b) == IF b = 0 THEN a ELSE GCD(b, a % b)

Fraction(a, b) ==
    [kind |-> "number", num |-> a \div GCD(a, b), den |-> b \div GCD(a, b)]

Number(k) == Fraction(k, 1)

Divide(a, b) ==
    IF b = 0 THEN (IF a = 0 THEN NaN ELSE Infinity) ELSE Fraction(a, b)

Times(x, k) ==
    IF x.kind = "number" THEN Fraction(x.num * k, x.den) ELSE x

\* the bar counts the unit in flight as done
ProgressOf_CountsUnitInFlight(index, total) == Times(Divide(index + 1, total), 100)

\* const progress = (currentWordIndex / words.length) * 100
ProgressOf(index, total) == Times(Divide(index, total), 100)

progress == ProgressOf(currentWordIndex, Len(words))

\* an utterance that is left at the rate of a new utterance
Utterance_DefaultRate(index, capWords, capPlaying, capSpeed, capVoice) ==
    [index |-> index, text |-> capWords[index + 1], words |-> capWords,
     isPlaying |-> capPlaying,
     rate |-> DefaultSpeed, voice |-> capVoice, live |-> TRUE]

\* new SpeechSynthesisUtterance(word) with rate = speed[0], voice = voice when
\* one is set, and its onend closure, which sees the words, isPlaying, speed
\* and voice of the render that built it
Utterance(index, capWords, capPlaying, capSpeed, capVoice) ==
    [index |-> index, text |-> capWords[index + 1], words |-> capWords,
     isPlaying |-> capPlaying,
     rate |-> capSpeed, voice |-> capVoice, live |-> TRUE]

\* window.speechSynthesis.cancel(): every utterance leaves the queue
CancelQueue == <<>>

CancelPending == cancelled \cup Range(queue)

CanCancel == Cardinality(CancelPending) <= MaxPending

\* the component is gone: the setters of its closures do nothing any more
Detach(us) == {[u EXCEPT !.live = FALSE] : u \in us}

Init ==
    /\ user \in Users \cup {NoUser}
    /\ content = <<>>
    /\ signingOut = FALSE
    /\ pdfInFlight = 0
    /\ isPlaying = FALSE
    /\ currentWordIndex = 0
    /\ started = FALSE
    /\ queue = <<>>
    /\ cancelled = {}
    /\ speed = DefaultSpeed
    /\ voice = NoVoice
    /\ voices = <<>>
    /\ available = <<>>
    /\ inserts = {}
    /\ lsHistory = <<>>
    /\ lsBookmarks = <<>>
    /\ guestHistory = <<>>
    /\ guestBookmarks = <<>>
    /\ capHistory = <<>>
    /\ capBookmarks = <<>>
    /\ nextId = 0
    /\ url = ""
    /\ loading = FALSE
    /\ urlInFlight = 0
    /\ toast = None
    /\ saving = 0
    /\ logged = NoLog

\* speakWord(index) called from a render whose closure holds capWords, capPlaying;
\* q is the queue and p the value of isPlaying set so far in this handler
SpeakWordQueue(index, capWords, capPlaying, capSpeed, capVoice, q) ==
    IF index >= Len(capWords) THEN q
    ELSE Append(q, Utterance(index, capWords, capPlaying, capSpeed, capVoice))

\* speakWord returns past the end without clearing isPlaying
SpeakWordPlaying_NoReset(index, capWords, p) == p

SpeakWordPlaying(index, capWords, p) ==
    IF index >= Len(capWords) THEN FALSE ELSE p

handlePlay ==
    /\ mounted
    /\ ~isPlaying
    /\ Len(queue) < MaxQueue
    /\ isPlaying' = SpeakWordPlaying(currentWordIndex, words, TRUE)
    /\ queue' = SpeakWordQueue(currentWordIndex, words, isPlaying, speed, voice, queue)
    /\ started' = TRUE
    /\ UNCHANGED <<user, content, signingOut, pdfInFlight, currentWordIndex, cancelled>>
    /\ UNCHANGED <<voiceVars, available, guestVars, inputVars>>
    /\ NoInsert /\ NoToast

handlePause ==
    /\ mounted
    /\ isPlaying
    /\ CanCancel
    /\ isPlaying' = FALSE
    /\ queue' = CancelQueue
    /\ cancelled' = CancelPending
    /\ UNCHANGED <<user, content, signingOut, pdfInFlight, currentWordIndex, started>>
    /\ UNCHANGED <<voiceVars, available, guestVars, inputVars>>
    /\ NoInsert /\ NoToast

handleStop ==
    /\ mounted
    /\ CanCancel
    /\ isPlaying' = FALSE
    /\ queue' = CancelQueue
    /\ cancelled' = CancelPending
    /\ currentWordIndex' = 0
    /\ started' = FALSE
    /\ UNCHANGED <<user, content, signingOut, pdfInFlight>>
    /\ UNCHANGED <<voiceVars, available, guestVars, inputVars>>
    /\ NoInsert /\ NoToast

\* utterance.onend of u, run with q the queue it leaves behind
OnEnd(u, q) ==
    IF ~u.live
    THEN /\ queue' = q
         /\ UNCHANGED <<isPlaying, currentWordIndex>>
    ELSE /\ currentWordIndex' = u.index + 1
         /\ IF u.isPlaying /\ u.index + 1 < Len(u.words)
            THEN /\ queue' = SpeakWordQueue(u.index + 1, u.words, u.isPlaying,
                                            u.rate, u.voice, q)
                 /\ UNCHANGED isPlaying
            ELSE /\ queue' = q
                 /\ isPlaying' = FALSE

\* the utterance being spoken completes
UtteranceEnd ==
    /\ queue # <<>>
    /\ OnEnd(Head(queue), Tail(queue))
    /\ UNCHANGED <<user, content, signingOut, pdfInFlight, started, cancelled>>
    /\ UNCHANGED <<voiceVars, available, guestVars, inputVars>>
    /\ NoInsert /\ NoToast

\* the speech capability reports an error for the utterance being spoken:
\* speakWord sets no onerror, so no handler runs
UtteranceError ==
    /\ queue # <<>>
    /\ queue' = Tail(queue)
    /\ UNCHANGED <<user, content, signingOut, pdfInFlight, isPlaying,
                   currentWordIndex, started, cancelled>>
    /\ UNCHANGED <<voiceVars, available, guestVars, inputVars>>
    /\ NoInsert /\ NoToast

\* a browser that ends a cancelled utterance with an end event
CancelledEnd(u) ==
    /\ u \in cancelled
    /\ cancelled' = cancelled \ {u}
    /\ OnEnd(u, queue)
    /\ UNCHANGED <<user, content, signingOut, pdfInFlight, started>>
    /\ UNCHANGED <<voiceVars, available, guestVars, inputVars>>
    /\ NoInsert /\ NoToast

\* a browser that ends a cancelled utterance with an error event
CancelledError(u) ==
    /\ u \in cancelled
    /\ cancelled' = cancelled \ {u}
    /\ UNCHANGED <<user, content, signingOut, pdfInFlight, isPlaying,
                   currentWordIndex, started, queue>>
    /\ UNCHANGED <<voiceVars, available, guestVars, inputVars>>
    /\ NoInsert /\ NoToast

\* ------------------------------------------------------- voice selection
\* availableVoices.find(pred), undefined (NoVoice) when there is none
RECURSIVE FindVoice(_, _)
FindVoice(list, names) ==
    IF list = <<>> THEN NoVoice
    ELSE IF Head(list) \in names THEN Head(list)
    ELSE FindVoice(Tail(list), names)

FirstVoice(list) == IF list = <<>> THEN NoVoice ELSE Head(list)

\* femaleVoice || maleVoice || availableVoices[0]
DefaultVoice(list) ==
    IF FindVoice(list, FemaleNamed) # NoVoice THEN FindVoice(list, FemaleNamed)
    ELSE IF FindVoice(list, MaleNamed) # NoVoice THEN FindVoice(list, MaleNamed)
    ELSE FirstVoice(list)

\* loadVoices, with what getVoices() returns
LoadVoices(availableVoices) ==
    /\ voices' = availableVoices
    /\ voice' = DefaultVoice(availableVoices)

\* saveToHistory: an insert into reading_history is issued; it stores the
\* row or fails, and a failure is only logged
SaveToHistory(userId) ==
    /\ saving < MaxSaving
    /\ inserts' = {[user_id |-> userId]}
    /\ saving' = saving + 1
    /\ logged' = NoLog

\* an answer with an error that also ends the playback
InsertAnswered_ErrorStops(ok) ==
    /\ saving > 0
    /\ saving' = saving - 1
    /\ inserts' = {}
    /\ logged' = IF ok THEN NoLog ELSE "Error saving to history:"
    /\ isPlaying' = IF ok THEN isPlaying ELSE FALSE
    /\ UNCHANGED <<user, content, signingOut, pdfInFlight, currentWordIndex,
                   started, queue, cancelled>>
    /\ UNCHANGED <<voiceVars, available, guestVars, inputVars>>
    /\ NoToast

\* saveToHistory after its await: the insert is answered, and an error is
\* caught and logged
InsertAnswered(ok) ==
    /\ saving > 0
    /\ saving' = saving - 1
    /\ inserts' = {}
    /\ logged' = IF ok THEN NoLog ELSE "Error saving to history:"
    /\ UNCHANGED <<appVars, voiceVars, available, guestVars, inputVars>>
    /\ NoToast

\* if (userId) saveToHistory()
UserIdEffect(userId) ==
    IF userId # NoUser
    THEN SaveToHistory(userId)
    ELSE NoInsert

\* the voice list of the speech capability changes; onvoiceschanged is the
\* loadVoices of the mounted reader
VoicesChanged(list) ==
    /\ available' = list
    /\ IF mounted THEN LoadVoices(list) ELSE UNCHANGED <<voice, voices>>
    /\ UNCHANGED <<user, content, signingOut, pdfInFlight, isPlaying,
                   currentWordIndex, started, queue, cancelled, speed,
                   guestVars, inputVars>>
    /\ NoInsert /\ NoToast

\* Select onValueChange: setVoice(voices.find(v => v.name === name) || null)
SelectVoice(name) ==
    /\ mounted
    /\ name \in Range(voices)
    /\ voice' = name
    /\ UNCHANGED <<user, content, signingOut, pdfInFlight, isPlaying,
                   currentWordIndex, started, queue, cancelled, speed, voices,
                   available, guestVars, inputVars>>
    /\ NoInsert /\ NoToast

\* Slider onValueChange: setSpeed
SetSpeed(value) ==
    /\ mounted
    /\ speed' = value
    /\ UNCHANGED <<user, content, signingOut, pdfInFlight, isPlaying,
                   currentWordIndex, started, queue, cancelled, voice, voices,
                   available, guestVars, inputVars>>
    /\ NoInsert /\ NoToast

\* ------------------------------------------------------------------ Index
\* setting this content replaces the ContentInput by the reader, and the
\* state of the ContentInput is gone
InputUnmounts(text) == ~mounted /\ text # <<>>

\* loading after a step that sets this content and would otherwise leave
\* loading at this value
LoadingAfter(text, value) == IF InputUnmounts(text) THEN FALSE ELSE value

\* what a new value of content does to the TTSReader below Index:
\* `if (content)` mounts it, keeps it (same element, state kept) or unmounts it,
\* and only the unmount runs the effect cleanup (speechSynthesis.cancel())
SetContent(text) ==
    /\ content' = text
    /\ url' = IF InputUnmounts(text) THEN "" ELSE url
    /\ IF mounted /\ text = <<>>
       THEN /\ CanCancel
            /\ queue' = CancelQueue
            /\ cancelled' = Detach(CancelPending)
            /\ isPlaying' = FALSE
            /\ currentWordIndex' = 0
            /\ started' = FALSE
            /\ speed' = DefaultSpeed
            /\ voice' = NoVoice
            /\ voices' = <<>>
            /\ NoInsert
       ELSE /\ UNCHANGED <<isPlaying, currentWordIndex, started, queue, cancelled,
                           speed>>
            /\ IF ~mounted /\ text # <<>>
               THEN LoadVoices(available) /\ UserIdEffect(user)
               ELSE NoInsert /\ UNCHANGED <<voice, voices>>

\* supabase.auth.onAuthStateChange: setUser; a changed userId re-runs the
\* [userId] effect of a mounted TTSReader, whose cleanup cancels speech
AuthStateChange(newUser) ==
    /\ user' = newUser
    /\ IF mounted /\ newUser # user
       THEN /\ CanCancel
            /\ queue' = CancelQueue
            /\ cancelled' = CancelPending
            /\ LoadVoices(available)
            /\ UserIdEffect(newUser)
       ELSE NoInsert /\ UNCHANGED <<queue, cancelled, voice, voices>>
    /\ UNCHANGED <<content, signingOut, pdfInFlight, isPlaying, currentWordIndex,
                   started, speed, available, guestVars, inputVars>>
    /\ NoToast

\* handleSignOut up to its await (the button is in the header of the input page)
handleSignOut ==
    /\ ~mounted
    /\ user # NoUser
    /\ ~signingOut
    /\ signingOut' = TRUE
    /\ UNCHANGED <<user, content, pdfInFlight, isPlaying, currentWordIndex,
                   started, queue, cancelled>>
    /\ UNCHANGED <<voiceVars, available, guestVars, inputVars>>
    /\ NoInsert /\ NoToast

\* handleSignOut after its await: setContent("")
SignOutDone(ok) ==
    /\ signingOut
    /\ signingOut' = FALSE
    /\ user' = IF ok THEN NoUser ELSE user
    /\ SetContent(<<>>)
    /\ UNCHANGED <<pdfInFlight, available, guestVars, loading, urlInFlight>>
    /\ NoToast

\* ----------------------------------------------------------- ContentInput
\* file.size in bytes and file.type of the file chosen
MaxFileSize == 10 * 1024 * 1024
Files == [size : {MaxFileSize, MaxFileSize + 1},
          type : {"application/pdf", "text/plain"}]
Urls == {"", "u"}

TooLarge_NoLimit(file) == FALSE

\* file.size > 10 * 1024 * 1024
TooLarge(file) == file.size > MaxFileSize

\* file.type !== "application/pdf"
NotPdf(file) == file.type # "application/pdf"

\* Input onChange: setUrl
SetUrl(value) ==
    /\ ~mounted
    /\ ~loading
    /\ url' = value
    /\ UNCHANGED <<appVars, voiceVars, available, guestVars, loading, urlInFlight>>
    /\ NoInsert /\ NoToast

\* handleUrlSubmit up to its await
handleUrlSubmit ==
    /\ ~mounted
    /\ ~loading
    /\ url # ""
    /\ urlInFlight < MaxInFlight
    /\ loading' = TRUE
    /\ urlInFlight' = urlInFlight + 1
    /\ UNCHANGED <<appVars, voiceVars, available, guestVars, url>>
    /\ NoInsert /\ NoToast

\* the request being answered is the one of the mounted ContentInput
\* (loading is set while that one is unanswered) or one of an unmounted one
Answers(ofMounted) ==
    IF ofMounted THEN ~mounted /\ loading
    ELSE urlInFlight > (IF ~mounted /\ loading THEN 1 ELSE 0)

\* handleUrlSubmit after its await, without error: onContentExtracted, the
\* Success toast, and setLoading(false) in the finally
UrlExtracted(text, ofMounted) ==
    /\ Answers(ofMounted)
    /\ urlInFlight' = urlInFlight - 1
    /\ SetContent(text)
    /\ loading' = IF ofMounted THEN FALSE ELSE LoadingAfter(text, loading)
    /\ toast' = Toast("Success", "Content extracted successfully!")
    /\ UNCHANGED <<user, signingOut, pdfInFlight, available, guestVars>>

\* handleUrlSubmit after its await, with an error: the catch shows the Error
\* toast, and setLoading(false) in the finally
UrlFailed(ofMounted) ==
    /\ Answers(ofMounted)
    /\ urlInFlight' = urlInFlight - 1
    /\ loading' = IF ofMounted THEN FALSE ELSE loading
    /\ toast' = Toast("Error", "Failed to extract content")
    /\ UNCHANGED <<appVars, voiceVars, available, guestVars, url>>
    /\ NoInsert

\* handleFileUpload: a file that is too large or no PDF is refused with a
\* toast; for any other file loading is set and, in the finally of the same
\* handler, cleared again, so the request is in flight with the inputs
\* enabled
handleFileUpload(file) ==
    /\ ~mounted
    /\ ~loading
    /\ IF TooLarge(file)
       THEN /\ toast' = Toast("Error", "File size must be less than 10MB")
            /\ UNCHANGED pdfInFlight
       ELSE IF NotPdf(file)
       THEN /\ toast' = Toast("Error", "Only PDF files are supported")
            /\ UNCHANGED pdfInFlight
       ELSE /\ pdfInFlight < MaxInFlight
            /\ pdfInFlight' = pdfInFlight + 1
            /\ NoToast
    /\ UNCHANGED <<user, content, signingOut, isPlaying, currentWordIndex,
                   started, queue, cancelled>>
    /\ UNCHANGED <<voiceVars, available, guestVars, inputVars>>
    /\ NoInsert

\* reader.onload after its await, without error: onContentExtracted and the
\* Success toast
PdfExtracted(text) ==
    /\ pdfInFlight > 0
    /\ pdfInFlight' = pdfInFlight - 1
    /\ SetContent(text)
    /\ loading' = LoadingAfter(text, loading)
    /\ toast' = Toast("Success", "PDF content extracted successfully!")
    /\ UNCHANGED <<user, signingOut, available, guestVars, urlInFlight>>

\* reader.onload after its await, with an error: the throw leaves the async
\* onload, which nothing awaits and no catch encloses
PdfFailed ==
    /\ pdfInFlight > 0
    /\ pdfInFlight' = pdfInFlight - 1
    /\ UNCHANGED <<user, content, signingOut, isPlaying, currentWordIndex,
                   started, queue, cancelled>>
    /\ UNCHANGED <<voiceVars, available, guestVars, inputVars>>
    /\ NoInsert /\ NoToast

Next ==
    \/ handlePlay
    \/ handlePause
    \/ handleStop
    \/ UtteranceEnd
    \/ UtteranceError
    \/ \E u \in cancelled : CancelledEnd(u)
    \/ \E u \in cancelled : CancelledError(u)
    \/ \E newUser \in Users \cup {NoUser} : AuthStateChange(newUser)
    \/ handleSignOut
    \/ \E ok \in BOOLEAN : SignOutDone(ok)
    \/ \E file \in Files : handleFileUpload(file)
    \/ \E text \in Contents : PdfExtracted(text)
    \/ PdfFailed
    \/ \E ok \in BOOLEAN : InsertAnswered(ok)

Spec == Init /\ [][Next]_vars

\* The reader mounted with every text of Texts, for its tokenizer.
NextTokens ==
    \/ \E file \in Files : handleFileUpload(file)
    \/ \E text \in Texts : PdfExtracted(text)
    \/ \E ok \in BOOLEAN : InsertAnswered(ok)

SpecTokens == Init /\ [][NextTokens]_vars

\* A reading session without pause() and stop(), in which the speech
\* capability signals the completion of every utterance it is given.
NextLive ==
    \/ \E file \in Files : handleFileUpload(file)
    \/ \E text \in Contents : PdfExtracted(text)
    \/ \E ok \in BOOLEAN : InsertAnswered(ok)
    \/ handlePlay
    \/ UtteranceEnd
    \/ \E list \in VoiceLists : VoicesChanged(list)
    \/ \E name \in Range(voices) : SelectVoice(name)
    \/ \E value \in SliderValues : SetSpeed(value)

SpecLive == Init /\ [][NextLive]_vars /\ WF_vars(UtteranceEnd)

\* the contents of the specifications that are not about the units spoken
VoiceTexts == {<<>>, <<"a", " ", "a">>}

\* The reader with its voice and speed controls, over a content of one unit
\* and an empty one, in a session that is not being signed out.
OneUnitTexts == {<<>>, TextOfUnits(1)}

NextVoice ==
    \/ handlePlay
    \/ handlePause
    \/ handleStop
    \/ UtteranceEnd
    \/ UtteranceError
    \/ \E u \in cancelled : CancelledEnd(u)
    \/ \E u \in cancelled : CancelledError(u)
    \/ \E newUser \in Users \cup {NoUser} : AuthStateChange(newUser)
    \/ \E file \in Files : handleFileUpload(file)
    \/ \E text \in OneUnitTexts : PdfExtracted(text)
    \/ \E list \in VoiceLists : VoicesChanged(list)
    \/ \E name \in Range(voices) : SelectVoice(name)
    \/ \E value \in SliderValues : SetSpeed(value)
    \/ \E ok \in BOOLEAN : InsertAnswered(ok)

SpecVoice == Init /\ [][NextVoice]_vars

\* The input page with both extraction paths and their failures, and the
\* sign-out that leads back to it.
NextInput ==
    \/ \E value \in Urls : SetUrl(value)
    \/ handleUrlSubmit
    \/ \E text \in VoiceTexts, ofMounted \in BOOLEAN : UrlExtracted(text, ofMounted)
    \/ \E ofMounted \in BOOLEAN : UrlFailed(ofMounted)
    \/ \E file \in Files : handleFileUpload(file)
    \/ \E text \in VoiceTexts : PdfExtracted(text)
    \/ PdfFailed
    \/ \E newUser \in Users \cup {NoUser} : AuthStateChange(newUser)
    \/ handleSignOut
    \/ \E ok \in BOOLEAN : SignOutDone(ok)
    \/ \E ok \in BOOLEAN : InsertAnswered(ok)

SpecInput == Init /\ [][NextInput]_vars

\* -------------------------------------------------------- useGuestStorage
\* Ids stand for crypto.randomUUID(): the n-th id drawn in this page load is
\* n, and an entry stored by an earlier page load has a negative id, lower
\* for an older entry. JSON.stringify and JSON.parse keep the strings and
\* numbers of these records as they are.
HistoryLimit == 50
MaxIds == 3
Titles == {"t"}
HistoryIds == {"abc", "xyz"}
Positions == {1, 2}
TotalWords == {2}

\* a history of n entries left in localStorage by earlier page loads
StoredHistory(n) == [i \in 1..n |-> [id |-> 0 - i, title |-> "t"]]

\* list.slice(0, n)
Slice(list, n) == SubSeq(list, 1, IF Len(list) < n THEN Len(list) ELSE n)

\* list.findIndex(b => b.history_id === historyId), counted from 1, 0 for -1
RECURSIVE FindIndexFrom(_, _, _)
FindIndexFrom(list, historyId, i) ==
    IF i > Len(list) THEN 0
    ELSE IF list[i].history_id = historyId THEN i
    ELSE FindIndexFrom(list, historyId, i + 1)

FindIndex(list, historyId) == FindIndexFrom(list, historyId, 1)

NoBookmark == [id |-> 0, history_id |-> "undefined", position |-> 0, total_words |-> 0]

\* getBookmark of the render the caller holds
GetBookmark(historyId) ==
    IF FindIndex(capBookmarks, historyId) = 0 THEN NoBookmark
    ELSE capBookmarks[FindIndex(capBookmarks, historyId)]

\* [newItem, ...guestHistory].slice(0, 50)
AddedHistory(newItem, history) == Slice(<<newItem>> \o history, HistoryLimit)

\* addToHistory of the render the caller holds
AddToHistory(title) ==
    /\ nextId < MaxIds
    /\ nextId' = nextId + 1
    /\ guestHistory' = AddedHistory([id |-> nextId + 1, title |-> title], capHistory)
    /\ lsHistory' = guestHistory'
    /\ UNCHANGED <<lsBookmarks, guestBookmarks, capHistory, capBookmarks>>
    /\ UNCHANGED <<appVars, voiceVars, available, inputVars>>
    /\ NoInsert /\ NoToast

\* the list saveBookmark stores
SavedBookmarks(bookmarks, historyId, position, totalWords, newId) ==
    IF FindIndex(bookmarks, historyId) > 0
    THEN [bookmarks EXCEPT ![FindIndex(bookmarks, historyId)] =
              [@ EXCEPT !.position = position, !.total_words = totalWords]]
    ELSE Append(bookmarks, [id |-> newId, history_id |-> historyId,
                            position |-> position, total_words |-> totalWords])

\* saveBookmark of the render the caller holds
SaveBookmark(historyId, position, totalWords) ==
    /\ IF FindIndex(capBookmarks, historyId) > 0
       THEN UNCHANGED nextId
       ELSE nextId < MaxIds /\ nextId' = nextId + 1
    /\ guestBookmarks' = SavedBookmarks(capBookmarks, historyId, position,
                                        totalWords, nextId + 1)
    /\ lsBookmarks' = guestBookmarks'
    /\ UNCHANGED <<lsHistory, guestHistory, capHistory, capBookmarks>>
    /\ UNCHANGED <<appVars, voiceVars, available, inputVars>>
    /\ NoInsert /\ NoToast

\* the component that uses the hook renders again: its handlers now see the
\* current state
HookRender ==
    /\ capHistory' = guestHistory
    /\ capBookmarks' = guestBookmarks
    /\ UNCHANGED <<lsHistory, lsBookmarks, guestHistory, guestBookmarks, nextId>>
    /\ UNCHANGED <<appVars, voiceVars, available, inputVars>>
    /\ NoInsert /\ NoToast

\* the hook is mounted anew: the first render sees the empty lists and the
\* mount effect sets the state to what localStorage holds
HookMount ==
    /\ guestHistory' = lsHistory
    /\ guestBookmarks' = lsBookmarks
    /\ capHistory' = <<>>
    /\ capBookmarks' = <<>>
    /\ UNCHANGED <<lsHistory, lsBookmarks, nextId>>
    /\ UNCHANGED <<appVars, voiceVars, available, inputVars>>
    /\ NoInsert /\ NoToast

\* a page load that finds localStorage empty, or holding a history one short
\* of the limit
InitGuest ==
    /\ user \in Users \cup {NoUser}
    /\ content = <<>>
    /\ signingOut = FALSE
    /\ pdfInFlight = 0
    /\ isPlaying = FALSE
    /\ currentWordIndex = 0
    /\ started = FALSE
    /\ queue = <<>>
    /\ cancelled = {}
    /\ speed = DefaultSpeed
    /\ voice = NoVoice
    /\ voices = <<>>
    /\ available = <<>>
    /\ inserts = {}
    /\ lsHistory \in {<<>>, StoredHistory(HistoryLimit - 1)}
    /\ lsBookmarks = <<>>
    /\ guestHistory = lsHistory
    /\ guestBookmarks = <<>>
    /\ capHistory = <<>>
    /\ capBookmarks = <<>>
    /\ nextId = 0
    /\ url = ""
    /\ loading = FALSE
    /\ urlInFlight = 0
    /\ toast = None
    /\ saving = 0
    /\ logged = NoLog

NextGuest ==
    \/ \E title \in Titles : AddToHistory(title)
    \/ \E historyId \in HistoryIds, position \in Positions, totalWords \in TotalWords :
           SaveBookmark(historyId, position, totalWords)
    \/ HookRender
    \/ HookMount
    \/ \E file \in Files : handleFileUpload(file)
    \/ \E text \in VoiceTexts : PdfExtracted(text)
    \/ \E ok \in BOOLEAN : InsertAnswered(ok)

SpecGuest == InitGuest /\ [][NextGuest]_vars

\* ---------------------------------------------------------------- claims
CancelledEndStep == \E u \in cancelled : CancelledEnd(u)

\* the utterance of the unit at currentWordIndex is the one being spoken
SpeakingCurrent ==
    /\ mounted
    /\ isPlaying
    /\ queue # <<>>
    /\ Head(queue).index = currentWordIndex

\* the last utterance handed to speak() is the one for unit i
EmitsUnit(q, i) == q # <<>> /\ q[Len(q)].index = i

\* the state stop() leaves (and the state of a reader never started)
Stopped ==
    /\ mounted
    /\ ~started
    /\ ~isPlaying
    /\ queue = <<>>
    /\ currentWordIndex = 0

\* started, not playing and nothing handed to the speech capability
Paused == mounted /\ started /\ ~isPlaying /\ queue = <<>>

\* C1: at most one utterance handed to the speech capability is outstanding
\* (neither completed nor cancelled) at any time.
C1_AtMostOneOutstanding == Len(queue) <= 1

\* C2: pause() leaves the controller not playing with currentWordIndex
\* unchanged, and the onend callback of a cancelled utterance that fires
\* afterwards never changes currentWordIndex.
C2_CancelledCompletionIgnored ==
    [][ /\ (handlePause => ~isPlaying' /\ currentWordIndex' = currentWordIndex)
        /\ (CancelledEndStep => currentWordIndex' = currentWordIndex) ]_vars

\* C3: while Playing, the completion of the unit at currentWordIndex
\* increments currentWordIndex by one; if it then equals the number of units
\* the controller is not playing, otherwise it stays playing and the unit at
\* the new index is emitted.
C3_CompletionAdvancesAndContinues ==
    [][ (SpeakingCurrent /\ UtteranceEnd) =>
          /\ currentWordIndex' = currentWordIndex + 1
          /\ IF currentWordIndex' = Len(words)
             THEN ~isPlaying'
             ELSE isPlaying' /\ EmitsUnit(queue', currentWordIndex') ]_vars

\* C4: stop() cancels the emission in flight, leaves the controller not
\* playing and sets currentWordIndex to 0, and from that stopped state
\* currentWordIndex stays 0 until the next play().
C4_StopResetsAndStays ==
    [][ /\ (handleStop =>
              ~isPlaying' /\ queue' = <<>> /\ currentWordIndex' = 0)
        /\ ((Stopped /\ ~handlePlay) => currentWordIndex' = 0) ]_vars

\* C5: 0 <= currentWordIndex <= number of units of the content displayed.
C5_IndexWithinUnits == 0 <= currentWordIndex /\ currentWordIndex <= Len(words)

\* C6: within a session every change of currentWordIndex is either exactly
\* +1 (never a decrease, never a jump) or a reset to 0, and the reset to 0
\* is the effect of stop().
C6_IndexChangesByOneOrStop ==
    [][ (mounted /\ mounted' /\ currentWordIndex' # currentWordIndex) =>
          \/ currentWordIndex' = currentWordIndex + 1
          \/ currentWordIndex' = 0 /\ handleStop ]_vars

\* C7: a speech error for the unit in flight is treated like its completion:
\* currentWordIndex advances by one and, unless that was the last unit, the
\* next unit is emitted.
C7_ErrorAdvances ==
    [][ (SpeakingCurrent /\ UtteranceError) =>
          /\ currentWordIndex' = currentWordIndex + 1
          /\ (currentWordIndex' < Len(words) =>
                EmitsUnit(queue', currentWordIndex')) ]_vars

\* C8: pause() cancels the emission in flight and keeps currentWordIndex;
\* the index is still the same at the next play(), which emits exactly the
\* unit at that index.
C8_PauseKeepsIndexUntilPlay ==
    [][ /\ (handlePause =>
              queue' = <<>> /\ currentWordIndex' = currentWordIndex)
        /\ ((Paused /\ mounted' /\ ~handlePlay /\ ~handleStop) =>
              currentWordIndex' = currentWordIndex)
        /\ ((handlePlay /\ currentWordIndex < Len(words)) =>
              queue' = <<Utterance(currentWordIndex, words, FALSE, speed, voice)>>) ]_vars

\* C10: when the content being read is replaced or the reader is torn down,
\* the outstanding emission is cancelled, no completion of the old session
\* can act any more, and the position of the new session is 0.
C10_ReplacementCancelsAndResets ==
    [][ (mounted /\ content' # content) =>
          /\ queue' = <<>>
          /\ \A u \in cancelled' : ~u.live
          /\ ~isPlaying'
          /\ currentWordIndex' = 0 ]_vars

\* play() has run and the controller has run out of units: not playing, with
\* the index at the end of the units
Finished == Paused /\ currentWordIndex = Len(words)

\* progressRatio * totalUnits = currentIndex, with progressRatio = progress / 100
RatioIsIndexOverTotal ==
    Len(words) > 0 =>
        /\ progress.kind = "number"
        /\ progress.num * Len(words) = currentWordIndex * 100 * progress.den

\* C9 (as stated): progressRatio equals currentIndex/totalUnits when
\* totalUnits > 0, and is exactly 1.0 (progress 100) whenever the controller
\* is Finished.
C9_ProgressRatioOriginal ==
    /\ RatioIsIndexOverTotal
    /\ Finished => progress = Number(100)

\* C9 (amended): progressRatio equals currentIndex/totalUnits when
\* totalUnits > 0, and is exactly 1.0 (progress 100) whenever the controller
\* is Finished on a content that has at least one unit.
C9_ProgressRatio ==
    /\ RatioIsIndexOverTotal
    /\ (Finished /\ Len(words) > 0) => progress = Number(100)

\* C9 witness: both units of a two-unit content have completed and the
\* controller is Finished with progress 100
C9_Witness_Finished ==
    /\ Finished
    /\ Len(words) = 2
    /\ progress = Number(100)

\* C11: play() on a content with no units hands nothing to the speech
\* capability and leaves the controller not playing with
\* currentWordIndex = 0 = number of units.
C11_PlayOnEmptyFinishesAtZero ==
    [][ (handlePlay /\ Len(words) = 0) =>
          /\ queue' = queue
          /\ ~isPlaying'
          /\ currentWordIndex' = 0
          /\ currentWordIndex' = Len(words') ]_vars

\* C12: play() on a Finished session (currentWordIndex = number of units > 0)
\* is a no-op: nothing is handed to the speech capability, currentWordIndex
\* stays at the number of units and the controller is not playing afterwards.
C12_PlayOnFinishedIsNoOp ==
    [][ (handlePlay /\ Finished /\ Len(words) > 0) =>
          /\ queue' = queue
          /\ currentWordIndex' = Len(words)
          /\ ~isPlaying' ]_vars

\* C12 witness: the Finished state of a content with units, in which play()
\* can be called (it leaves exactly this state)
C12_Witness_FinishedWithUnits ==
    /\ Finished
    /\ Len(words) > 0
    /\ ENABLED handlePlay

\* an utterance was handed to the speech queue in this step
Emits == queue' # <<>> /\ queue' # queue /\ Len(queue') >= Len(queue)

VoiceOrSpeedChange ==
    \/ \E name \in Range(voices) : SelectVoice(name)
    \/ \E value \in SliderValues : SetSpeed(value)

\* C13: changing the voice or the speed leaves the utterances already handed
\* to the speech queue as they were emitted, and every utterance emitted
\* afterwards carries the voice and the rate selected at its emission.
C13_SelectionAppliesFromNextEmission ==
    [][ /\ VoiceOrSpeedChange => queue' = queue /\ cancelled' = cancelled
        /\ Emits => /\ queue'[Len(queue')].rate = speed
                    /\ queue'[Len(queue')].voice = voice ]_vars

\* a unit is in flight with the rate and the voice of its emission after
\* both selections were changed
C13_Witness_InFlightKeepsOldSelection ==
    /\ isPlaying
    /\ queue # <<>>
    /\ Head(queue).rate # speed
    /\ Head(queue).voice # voice
    /\ voice \in Range(voices)

\* a bookmark with this position and total is in the guest store after the
\* step, or the step issues a remote write
BookmarkNotified(position, totalUnits) ==
    \/ \E i \in 1..Len(lsBookmarks') :
          /\ lsBookmarks'[i].position = position
          /\ lsBookmarks'[i].total_words = totalUnits
    \/ inserts' # {}

\* C14: every step of the reader that increments currentWordIndex saves the
\* new position, with the number of units, as a bookmark.
C14_IncrementNotifiesBookmark ==
    [][ (mounted /\ mounted' /\ currentWordIndex' = currentWordIndex + 1) =>
            BookmarkNotified(currentWordIndex', Len(words)) ]_vars

\* the reader is mounted: a content session is entered
MountStep == ~mounted /\ mounted'

\* C15: a content session starts at the position of a persisted bookmark
\* when the guest store holds one, and at 0 when it holds none.
C15_IndexRestoredFromBookmark ==
    [][ MountStep =>
            IF lsBookmarks = <<>> THEN currentWordIndex' = 0
            ELSE \E i \in 1..Len(lsBookmarks) :
                    currentWordIndex' = lsBookmarks[i].position ]_vars

BookmarksOf(list, historyId) == SelectSeq(list, LAMBDA b : b.history_id = historyId)

\* C16: a saveBookmark for a key leaves the store with exactly one bookmark
\* for that key, carrying the saved position and total, and leaves the
\* bookmarks of every other key as they were, at most one per key.
C16_BookmarkUpsert ==
    [][ \A h \in HistoryIds, p \in Positions, t \in TotalWords :
          SaveBookmark(h, p, t) =>
            /\ Len(BookmarksOf(lsBookmarks', h)) = 1
            /\ BookmarksOf(lsBookmarks', h)[1].position = p
            /\ BookmarksOf(lsBookmarks', h)[1].total_words = t
            /\ \A k \in HistoryIds \ {h} :
                  /\ BookmarksOf(lsBookmarks', k) = BookmarksOf(lsBookmarks, k)
                  /\ Len(BookmarksOf(lsBookmarks', k)) <= 1 ]_vars

\* C17: an addToHistory puts its entry first in the store, in front of the
\* entries the store held, of which only the oldest is dropped, when the
\* store already held 50; the store never holds more than 50.
C17_HistoryKeepsMostRecent ==
    [][ (\E title \in Titles : AddToHistory(title)) =>
            /\ Len(lsHistory') <= HistoryLimit
            /\ lsHistory' # <<>>
            /\ Head(lsHistory').id = nextId'
            /\ Tail(lsHistory') = Slice(lsHistory, HistoryLimit - 1) ]_vars

\* C18: entering a content session writes one record: to the remote store
\* and not to the local store for an authenticated user, to the local store
\* and not to the remote store for a guest.
C18_PersistenceRoutedByIdentity ==
    [][ MountStep =>
            IF user # NoUser
            THEN /\ inserts' # {}
                 /\ lsHistory' = lsHistory /\ lsBookmarks' = lsBookmarks
            ELSE /\ inserts' = {}
                 /\ lsHistory' # lsHistory \/ lsBookmarks' # lsBookmarks ]_vars

\* C19: an upload of a file over 10 MB, or of a file that is no PDF, shows
\* an Error toast, issues no extraction request and leaves the content as
\* it was.
C19_InvalidFileRejectedLocally ==
    [][ \A file \in Files :
          (handleFileUpload(file) /\
             (file.size > MaxFileSize \/ file.type # "application/pdf")) =>
            /\ toast'.title = "Error"
            /\ pdfInFlight' = pdfInFlight
            /\ urlInFlight' = urlInFlight
            /\ content' = content ]_vars

\* a file over the limit was refused while no request is in flight
C19_Witness_Refused ==
    /\ toast = Toast("Error", "File size must be less than 10MB")
    /\ pdfInFlight = 0
    /\ urlInFlight = 0
    /\ content = <<>>

\* an extraction request is answered with an error
ExtractionFails == PdfFailed \/ \E ofMounted \in BOOLEAN : UrlFailed(ofMounted)

\* C20: when an extraction request fails, an Error toast is shown, the
\* content stays as it was and no request is issued in its place.
C20_FailureSurfacedAndAbandoned ==
    [][ ExtractionFails =>
            /\ toast'.title = "Error"
            /\ content' = content
            /\ urlInFlight' + pdfInFlight' = urlInFlight + pdfInFlight - 1 ]_vars

\* play, pause and stop can be used wherever their buttons and the bounds
\* of the speech queue allow
ControlsEnabled ==
    /\ (~isPlaying /\ Len(queue) < MaxQueue) => ENABLED handlePlay
    /\ (isPlaying /\ CanCancel) => ENABLED handlePause
    /\ CanCancel => ENABLED handleStop

\* C21: while an insert into reading_history is unanswered the reader's
\* play, pause and stop stay usable, and its answer, with or without an
\* error, leaves isPlaying, currentWordIndex and the utterances at the
\* speech capability as they were.
C21_PersistenceNeverBlocksPlayback ==
    /\ []((mounted /\ saving > 0) => ControlsEnabled)
    /\ [][ (\E ok \in BOOLEAN : InsertAnswered(ok)) =>
              /\ isPlaying' = isPlaying
              /\ currentWordIndex' = currentWordIndex
              /\ queue' = queue
              /\ cancelled' = cancelled ]_vars

\* an insert has just failed while a unit is being spoken
C21_Witness_FailedWhilePlaying ==
    /\ logged # NoLog
    /\ isPlaying
    /\ queue # <<>>

\* the voice list changes under the mounted reader
VoicesChangedStep == mounted /\ \E list \in VoiceLists : VoicesChanged(list)

\* the selected voice is one the user picked: it is not the one the default
\* policy gives for the list shown
UserChoseVoice == voice # NoVoice /\ voice # DefaultVoice(voices)

\* C22: when the voice list changes, a voice the user picked, and that the
\* new list still has, stays selected.
C22_DefaultKeepsUserChoice ==
    [][ (VoicesChangedStep /\ UserChoseVoice /\ voice \in Range(available')) =>
            voice' = voice ]_vars

\* the text without its whitespace characters
StripWs(text) == SelectSeq(text, LAMBDA c : c \notin Whitespace)

\* the units one after the other
RECURSIVE Flatten(_)
Flatten(units) == IF units = <<>> THEN <<>> ELSE Head(units) \o Flatten(Tail(units))

\* units.join(" ")
RECURSIVE JoinSpaces(_)
JoinSpaces(units) ==
    IF units = <<>> THEN <<>>
    ELSE IF Len(units) = 1 THEN Head(units)
    ELSE Head(units) \o <<" ">> \o JoinSpaces(Tail(units))

\* the positions of the text where a run of non-whitespace characters starts
UnitStarts(text) ==
    {i \in 1..Len(text) :
        /\ text[i] \notin Whitespace
        /\ i = 1 \/ text[i - 1] \in Whitespace}

\* C23: the units of a content are its maximal runs of non-whitespace
\* characters in order: none is empty or holds whitespace, together they
\* are the content without its whitespace, there is one per start of a
\* run, none for a content without such a character, and the units joined
\* by single spaces give the same units again.
C23_TokenizerUnits ==
    /\ \A i \in 1..Len(words) :
          /\ words[i] # <<>>
          /\ \A j \in 1..Len(words[i]) : words[i][j] \notin Whitespace
    /\ Flatten(words) = StripWs(content)
    /\ Len(words) = Cardinality(UnitStarts(content))
    /\ StripWs(content) = <<>> => words = <<>>
    /\ Tokenize(JoinSpaces(words)) = words

\* a content that starts with whitespace and holds two different units
C23_Witness_TwoUnits ==
    /\ Len(words) = 2
    /\ words[1] # words[2]

\* C24: once play() has emitted a unit, and with every emitted unit's
\* completion signalled and no pause() or stop(), the controller eventually
\* is Finished: not playing, nothing in flight, currentWordIndex at the
\* number of units.
C24_PlayRunsToFinished ==
    (mounted /\ isPlaying /\ queue # <<>>) ~> Finished

\* the identity of the signed-in user changes under a mounted reader
UserIdChanges ==
    /\ mounted
    /\ user' # user
    /\ \E newUser \in Users \cup {NoUser} : AuthStateChange(newUser)

\* C25: a controller that shows Playing has an utterance outstanding at the
\* speech capability; in particular a change of userId under a reader that is
\* playing does not leave it playing with nothing in flight.
C25_PlayingHasUtteranceOutstanding ==
    [][ (UserIdChanges /\ isPlaying /\ queue # <<>>) =>
            (isPlaying' => queue' # <<>>) ]_vars

\* the history_ids that have a bookmark in the list
KeysOf(list) == {list[i].history_id : i \in 1..Len(list)}

\* some saveBookmark is called
SaveBookmarkStep ==
    \E h \in HistoryIds, p \in Positions, t \in TotalWords : SaveBookmark(h, p, t)

\* C26: a guest saveBookmark loses no bookmark that was stored, also when it
\* is called from a render that has not seen the previous save, and
\* localStorage and the in-memory list hold the same bookmarks.
C26_NoSavedBookmarkLost ==
    /\ [](lsBookmarks = guestBookmarks)
    /\ [][ SaveBookmarkStep => KeysOf(lsBookmarks) \subseteq KeysOf(lsBookmarks') ]_vars

\* the extraction requests that have not been answered
Outstanding == urlInFlight + pdfInFlight

\* C27: while the input form is displayed and an extraction request (URL or
\* PDF) is in flight, loading is true, and at most one extraction request
\* is outstanding.
C27_LoadingWhileExtracting ==
    /\ (~mounted /\ Outstanding > 0) => loading
    /\ Outstanding <= 1

====
